---- MODULE Spec2Model ----
(***************************************************************************)
(* Model of hooks/tk-multi-publish2/basic/publish_asset_shader.py: the     *)
(* MayaAssetShaderExport publish plugin (accept / validate / publish /     *)
(* finalize) and its file-name version scan.                               *)
(*                                                                         *)
(* File names are sequences of one-character strings, so that substring    *)
(* tests, lexicographic sorting and the regular expression of              *)
(* _get_next_shader_version_number are computed character by character.    *)
(* Paths are sequences of path components.                                 *)
(***************************************************************************)
EXTENDS Integers, Sequences, FiniteSets, TLC

\* ------------------------------------------------------------------ bounds
MaxShaders == 2      \* longest shader iterator
MaxInitFiles == 2    \* files found in the publish directory at start
MaxRounds == 1       \* collect/accept/validate/publish cycles after the first

\* ------------------------------------------------------------- characters
None == "None"

Digits == <<"0", "1", "2", "3", "4", "5", "6", "7", "8", "9">>

IsDigit(c) == \E d \in 1..10 : Digits[d] = c

DigitVal(c) == (CHOOSE d \in 1..10 : Digits[d] = c) - 1

Letters == {"a", "b", "m", "v"}

\* \w of the regular expression: [a-zA-Z0-9_]
IsWord(c) == IsDigit(c) \/ c \in Letters \/ c = "_"

\* code point of a character, the order str comparison uses
Ord(c) ==
    CASE c = "-" -> 45
      [] c = "." -> 46
      [] IsDigit(c) -> 48 + DigitVal(c)
      [] c = "_" -> 95
      [] c = "a" -> 97
      [] c = "b" -> 98
      [] c = "m" -> 109
      [] c = "v" -> 118

SetMax(S) == CHOOSE x \in S : \A y \in S : y <= x

SetMin(S) == CHOOSE x \in S : \A y \in S : x <= y

\* ------------------------------------------------- str operations (l.378-382)
\* `file_name in f`: substring test
Contains(f, file_name) ==
    \E i \in 1..(Len(f) + 1) :
        /\ i + Len(file_name) - 1 <= Len(f)
        /\ \A j \in 1..Len(file_name) : f[i + j - 1] = file_name[j]

\* a < b for str: first differing code point decides, a proper prefix is less
StrLess(a, b) ==
    \/ /\ Len(a) < Len(b)
       /\ \A j \in 1..Len(a) : a[j] = b[j]
    \/ \E i \in 1..Len(a) :
        /\ i <= Len(b)
        /\ \A j \in 1..(i - 1) : a[j] = b[j]
        /\ Ord(a[i]) < Ord(b[i])

RECURSIVE SortFiles(_)
\* files.sort(): the entries in ascending order
SortFiles(S) ==
    IF S = {} THEN <<>>
    ELSE LET least == CHOOSE f \in S : \A g \in S \ {f} : StrLess(f, g)
         IN <<least>> \o SortFiles(S \ {least})

\* ---------------------------------- re.findall("(\w+.v(\d{3}).\w+)", s) (l.382)
\* length of the run of \w characters starting at position i
WordRun(s, i) ==
    SetMax({k \in 0..(Len(s) - i + 1) : \A j \in i..(i + k - 1) : IsWord(s[j])})

\* the rest of the pattern after the leading \w+, from position p:
\* any character, "v", three digits, any character, one or more \w
TailOk(s, p) ==
    /\ p + 6 <= Len(s)
    /\ s[p + 1] = "v"
    /\ \A j \in (p + 2)..(p + 4) : IsDigit(s[j])
    /\ IsWord(s[p + 6])

\* lengths the leading \w+ can take for a match starting at i
MatchLens(s, i) == {k \in 1..WordRun(s, i) : TailOk(s, i + k)}

\* the match starting at i: greedy leading \w+ (backtracking to the longest
\* length that lets the rest match), greedy trailing \w+
MatchAt(s, i) ==
    LET k == SetMax(MatchLens(s, i))
        p == i + k
    IN [v |-> 100 * DigitVal(s[p + 2]) + 10 * DigitVal(s[p + 3]) + DigitVal(s[p + 4]),
        end |-> p + 5 + WordRun(s, p + 6)]

RECURSIVE FindAllFrom(_, _)
\* the group-2 values int(v) of the non-overlapping matches, left to right
FindAllFrom(s, pos) ==
    LET starts == {i \in pos..Len(s) : MatchLens(s, i) # {}}
    IN IF starts = {} THEN <<>>
       ELSE LET m == MatchAt(s, SetMin(starts))
            IN <<m.v>> \o FindAllFrom(s, m.end + 1)

FindAll(s) == FindAllFrom(s, 1)

RECURSIVE MaxVersion(_, _)
\* the loop of l.382-386: version = max(version, v) over the matches
MaxVersion(vs, version) ==
    IF vs = <<>> THEN version
    ELSE MaxVersion(Tail(vs), IF version < Head(vs) THEN Head(vs) ELSE version)

\* a variant of the version scan that looks at every matching entry
GetNextScanningAllFiles(d, file_name) ==
    IF ~d.exists THEN [status |-> "OSError", value |-> 0]
    ELSE LET files == SortFiles({f \in d.files : Contains(f, file_name)})
             found == UNION {{FindAll(files[i])[j] : j \in 1..Len(FindAll(files[i]))} :
                                i \in 1..Len(files)}
         IN IF Len(files) = 0 THEN [status |-> "IndexError", value |-> 0]
            ELSE [status |-> "ok", value |-> SetMax(found \cup {0}) + 1]

\* _get_next_shader_version_number(path, file_name); d is the state of the
\* directory at path.  os.listdir raises for a directory that does not
\* exist, files[-1] raises for an empty list.
GetNextShaderVersionNumber(d, file_name) ==
    IF ~d.exists THEN [status |-> "OSError", value |-> 0]
    ELSE LET files == SortFiles({f \in d.files : Contains(f, file_name)})
         IN IF Len(files) = 0 THEN [status |-> "IndexError", value |-> 0]
            ELSE [status |-> "ok",
                  value |-> MaxVersion(FindAll(files[Len(files)]), 0) + 1]

\* ------------------------------------------------------ paths and templates
\* the session paths the scene can be saved under: work area, asset,
\* version, extension
SavedPaths == {<<"work", "chr", 2, "ma">>, <<"work", "chr", 3, "mb">>}

\* cmds.file(query=True, sn=True) of a scene that was never saved
Unsaved == <<>>

WorkTemplates == {"wt_asset_version", "wt_asset", "wt_shot_version"}

PublishTemplates == {"pt_asset", "pt_asset_version"}

\* work_template.get_fields(path)
GetFields(work_template, path) ==
    CASE work_template = "wt_asset_version" -> [Asset |-> path[2], version |-> path[3]]
      [] work_template = "wt_asset" -> [Asset |-> path[2]]
      [] work_template = "wt_shot_version" -> [Shot |-> path[2], version |-> path[3]]

TemplateKeys(publish_template) ==
    CASE publish_template = "pt_asset" -> {"Asset"}
      [] publish_template = "pt_asset_version" -> {"Asset", "version"}

\* publish_template.missing_keys(fields)
MissingKeys(publish_template, fields) ==
    TemplateKeys(publish_template) \ DOMAIN fields

\* publish_template.apply_fields(fields)
ApplyFields(publish_template, fields) ==
    CASE publish_template = "pt_asset" -> <<"pub", fields["Asset"], "shaders">>
      [] publish_template = "pt_asset_version" ->
            <<"pub", fields["Asset"], <<"shaders", fields["version"]>>>>

\* os.path.dirname(publish_path)
Dirname(path) == SubSeq(path, 1, Len(path) - 1)

PublishDirs == {<<"pub", "chr">>}

\* ----------------------------------------------------------- property bags
EmptyBag == [k \in {} |-> None]

HasKey(bag, k) == k \in DOMAIN bag

\* bag[k] = v
Put(bag, k, v) == [x \in DOMAIN bag \cup {k} |-> IF x = k THEN v ELSE bag[x]]

\* --------------------------------------------------------- shaders, files
ShaderA == <<"a">>
ShaderAB == <<"a", "b">>

\* shading_engine.nodeName() of the shaders a scene can hold
ShaderNames == {ShaderA, ShaderAB}

\* the contents a shader iterator can have
ShaderSeqs ==
    {s \in UNION {[1..n -> ShaderNames] : n \in 0..MaxShaders} :
        \A i, j \in 1..Len(s) : i # j => s[i] # s[j]}

\* files a publish directory can hold before the first publish
InitFiles ==
    { <<"a", ".", "v", "0", "0", "1">>,
      <<"a", ".", "v", "0", "0", "5", ".", "m">>,
      <<"a", "b", ".", "v", "0", "0", "1", ".", "m">>,
      <<"b", ".", "v", "0", "0", "7", ".", "m">>,
      <<"a", ".", "v", "0", "0", "1", ".", "b", "-", "a", ".", "v", "0", "0", "3", ".", "m">> }

InitListings == {S \in SUBSET InitFiles : Cardinality(S) <= MaxInitFiles}

Absent == [exists |-> FALSE, files |-> {}]

InitDirs == {Absent} \cup {[exists |-> TRUE, files |-> S] : S \in InitListings}

RECURSIVE DigitsOf(_)
DigitsOf(n) ==
    IF n < 10 THEN <<Digits[n + 1]>>
    ELSE DigitsOf(n \div 10) \o <<Digits[(n % 10) + 1]>>

\* "{:03d}".format(n)
Format03d(n) ==
    LET ds == DigitsOf(n)
    IN IF Len(ds) = 1 THEN <<"0", "0">> \o ds
       ELSE IF Len(ds) = 2 THEN <<"0">> \o ds
       ELSE ds

\* "{}.v{:03d}".format(name, version_number)   (l.303)
ShaderFileName(name, version_number) ==
    name \o <<".", "v">> \o Format03d(version_number)

VARIABLES
    properties,              \* item.properties
    parent_properties,       \* item.parent.properties
    context_change_allowed,  \* item.context_change_allowed
    templates,               \* the templates publisher.get_template_by_name knows
    session,                 \* the path of the Maya session, Unsaved if none
    fs,                      \* the publish directories on disk
    phase,                   \* where the item is in the publisher's lifecycle
    accept_result,           \* what accept returned
    validate_result,         \* what validate returned, or that it raised
    publish_result,          \* how publish ended
    log,                     \* the calls the running handler made, in order
    pre,                     \* item and session as the last handler found them
    rounds                   \* collect cycles so far

vars == <<properties, parent_properties, context_change_allowed, templates,
          session, fs, phase, accept_result, validate_result, publish_result,
          log, pre, rounds>>

\* the properties validate computes
PathKeys == {"path", "publish_path", "publish_version"}

Restrict(bag, keys) == [k \in DOMAIN bag \cap keys |-> bag[k]]

Snapshot ==
    [context_change_allowed |-> context_change_allowed,
     properties |-> Restrict(properties, PathKeys),
     session |-> session,
     dirs |-> {dir \in PublishDirs : fs[dir].exists}]

\* ------------------------------------------------------------------ accept
\* a variant of accept that does not look at the work template
AcceptIgnoringWorkTemplate(props, parent_props, tmpls, cca) ==
    IF ~HasKey(props, "shader_iter")
    THEN [result |-> [accepted |-> FALSE], properties |-> props, cca |-> cca]
    ELSE IF Len(props["shader_iter"]) = 0
    THEN [result |-> [accepted |-> FALSE], properties |-> props, cca |-> cca]
    ELSE LET publish_template ==
                 IF HasKey(tmpls, "maya_asset_shader")
                 THEN tmpls["maya_asset_shader"] ELSE None
         IN [result |-> [accepted |-> publish_template # None, checked |-> TRUE],
             properties |-> Put(props, "publish_template", publish_template),
             cca |-> FALSE]

\* accept(settings, item), l.129-167: the returned dict, the item's
\* properties and its context_change_allowed after the call
AcceptOutcome(props, parent_props, tmpls, cca) ==
    IF ~HasKey(props, "shader_iter")
    THEN [result |-> [accepted |-> FALSE], properties |-> props, cca |-> cca]
    ELSE IF Len(props["shader_iter"]) = 0
    THEN [result |-> [accepted |-> FALSE], properties |-> props, cca |-> cca]
    ELSE LET has_work == HasKey(parent_props, "work_template")
             publish_template ==
                 IF HasKey(tmpls, "maya_asset_shader")
                 THEN tmpls["maya_asset_shader"] ELSE None
             accepted == has_work /\ publish_template # None
         IN [result |-> [accepted |-> accepted, checked |-> TRUE],
             properties |-> Put(props, "publish_template", publish_template),
             cca |-> FALSE]

Accept ==
    /\ phase = "collected"
    /\ \E out \in {AcceptOutcome(properties, parent_properties, templates,
                                 context_change_allowed)} :
          /\ accept_result' = out.result
          /\ properties' = out.properties
          /\ context_change_allowed' = out.cca
          /\ phase' = IF out.result["accepted"] THEN "accepted" ELSE "rejected"
    /\ pre' = Snapshot
    /\ log' = <<>>
    /\ UNCHANGED <<parent_properties, templates, session, fs, validate_result,
                   publish_result, rounds>>

\* ---------------------------------------------------------------- validate
\* a variant of l.221-232 that stores publish_version whether or not the
\* work fields hold a version
ValidateWritesAlwaysVersion(props0, publish_template, work_fields, base_ok) ==
    LET publish_path == ApplyFields(publish_template, work_fields)
        props1 == Put(props0, "path", publish_path)
        props2 == Put(props1, "publish_path", props1["path"])
        props3 == Put(props2, "publish_version",
                      IF "version" \in DOMAIN work_fields
                      THEN work_fields["version"] ELSE 0)
    IN [result |-> IF base_ok THEN "True" ELSE "False",
        properties |-> props3,
        log |-> << <<"set", "path">>, <<"set", "publish_path">>,
                   <<"set", "publish_version">>, <<"base_validate", base_ok>> >>]

\* l.221-232: the publish path and version are stored in the item, then the
\* base class validates.  log holds the properties written and the call of
\* the base class, in order.
ValidateWrites(props0, publish_template, work_fields, base_ok) ==
    LET publish_path == ApplyFields(publish_template, work_fields)
        props1 == Put(props0, "path", publish_path)
        props2 == Put(props1, "publish_path", props1["path"])
        has_version == "version" \in DOMAIN work_fields
        props3 == IF has_version
                  THEN Put(props2, "publish_version", work_fields["version"])
                  ELSE props2
        writes == << <<"set", "path">>, <<"set", "publish_path">> >>
                  \o (IF has_version
                      THEN << <<"set", "publish_version">> >>
                      ELSE <<>>)
    IN [result |-> IF base_ok THEN "True" ELSE "False",
        properties |-> props3,
        log |-> Append(writes, <<"base_validate", base_ok>>)]

\* a variant of validate that answers False for a session never saved
ValidateFalseWhenUnsaved(props, parent_props, path, fetched, base_ok) ==
    LET props0 == Put(props, "shader_iter", fetched)
    IN IF Len(fetched) = 0
       THEN [result |-> "False", properties |-> props0, log |-> <<>>]
       ELSE IF path = Unsaved
       THEN [result |-> "False", properties |-> props0,
             log |-> << <<"error", "The Maya session has not been saved.">> >>]
       ELSE LET work_template == parent_props["work_template"]
                publish_template == props["publish_template"]
                work_fields == GetFields(work_template, path)
            IN IF MissingKeys(publish_template, work_fields) # {}
               THEN [result |-> "raised", properties |-> props0,
                     log |-> << <<"error", "missing keys">> >>]
               ELSE ValidateWrites(props0, publish_template, work_fields, base_ok)

\* validate(settings, item), l.183-232.  fetched is what shader_iter.fetch()
\* finds in the scene, base_ok what the base class validator answers.
\* result is "True", "False" or "raised".
ValidateOutcome(props, parent_props, path, fetched, base_ok) ==
    LET props0 == Put(props, "shader_iter", fetched)
    IN IF Len(fetched) = 0
       THEN [result |-> "False", properties |-> props0, log |-> <<>>]
       ELSE IF path = Unsaved
       THEN [result |-> "raised", properties |-> props0,
             log |-> << <<"error", "The Maya session has not been saved.">> >>]
       ELSE LET work_template == parent_props["work_template"]
                publish_template == props["publish_template"]
                work_fields == GetFields(work_template, path)
                missing_keys == MissingKeys(publish_template, work_fields)
            IN IF missing_keys # {}
               THEN [result |-> "raised", properties |-> props0,
                     log |-> << <<"error", "missing keys">> >>]
               ELSE ValidateWrites(props0, publish_template, work_fields, base_ok)

Validate ==
    /\ phase \in {"accepted", "validate_raised", "invalid"}
    /\ \E fetched \in ShaderSeqs, base_ok \in BOOLEAN :
        \E out \in {ValidateOutcome(properties, parent_properties, session,
                                    fetched, base_ok)} :
           /\ validate_result' = out.result
           /\ properties' = out.properties
           /\ log' = out.log
           /\ phase' = CASE out.result = "True" -> "validated"
                         [] out.result = "False" -> "invalid"
                         [] out.result = "raised" -> "validate_raised"
    /\ pre' = Snapshot
    /\ UNCHANGED <<parent_properties, context_change_allowed, templates, session,
                   fs, accept_result, publish_result, rounds>>

\* the "Save As..." action validate offers (l.201, l.463-486): the user
\* saves the session under a path
SaveScene ==
    /\ phase = "validate_raised"
    /\ session = Unsaved
    /\ session' \in SavedPaths
    /\ UNCHANGED <<properties, parent_properties, context_change_allowed,
                   templates, fs, phase, accept_result, validate_result,
                   publish_result, log, pre, rounds>>

\* ----------------------------------------------------------------- publish
\* _save_session(path), l.447-451: the file type chosen from the extension
MayaFileType(path) ==
    CASE path[Len(path)] = "ma" -> "mayaAscii"
      [] path[Len(path)] = "mb" -> "mayaBinary"
      [] OTHER -> None

\* l.258-266: os.makedirs when the directory is missing; an exception is
\* logged and execution continues
MakeDirs(d, mk_ok) ==
    IF d.exists THEN [dir |-> d, log |-> <<>>]
    ELSE IF mk_ok
    THEN [dir |-> [exists |-> TRUE, files |-> {}],
          log |-> << <<"makedirs", TRUE>> >>]
    ELSE [dir |-> d,
          log |-> << <<"makedirs", FALSE>>,
                     <<"error", "Unable to make the directory">> >>]

\* one pass of the loop body, l.297-348, for the shader called name: the
\* next version is computed from the directory, the shader is exported to
\* the versioned file, the file is registered as a publish, the node entity
\* is filled in (l.332-340), loaded, and created or updated
ShaderStep(publish_dir, d, name, has_id) ==
    LET r == GetNextShaderVersionNumber(d, name)
        scan == <<"next_version", name, d, r>>
    IN IF r.status # "ok"
       THEN [dir |-> d, log |-> <<scan>>, raised |-> r.status]
       ELSE LET version_number == r.value
                file == ShaderFileName(name, version_number)
                shader_path == Append(publish_dir, file)
            IN [dir |-> [d EXCEPT !.files = @ \cup {file}],
                log |-> << scan,
                           <<"export", name, shader_path>>,
                           <<"register_publish", name, shader_path, version_number>>,
                           <<"load", name>>,
                           <<IF has_id THEN "update" ELSE "create", name>> >>,
                raised |-> None]

RECURSIVE ShaderLoop(_, _, _, _, _)
\* for shader in shader_iter, l.297: stops at the first exception
ShaderLoop(publish_dir, d, shaders, i, has_id) ==
    IF i > Len(shaders) THEN [dir |-> d, log |-> <<>>, raised |-> None]
    ELSE LET step == ShaderStep(publish_dir, d, shaders[i], has_id[i])
         IN IF step.raised # None THEN step
            ELSE LET rest == ShaderLoop(publish_dir, step.dir, shaders, i + 1, has_id)
                 IN [dir |-> rest.dir, log |-> step.log \o rest.log,
                     raised |-> rest.raised]

\* a variant of publish that gives up when the directory cannot be made
PublishAbortingOnMakeDirs(props, path, dirs, mk_ok, has_id) ==
    LET saved == << <<"save_session", path, MayaFileType(path)>> >>
        publish_path == props["path"]
        publish_dir == Dirname(publish_path)
        made == MakeDirs(dirs[publish_dir], mk_ok)
        loop == ShaderLoop(publish_dir, made.dir, props["shader_iter"], 1, has_id)
    IN IF ~dirs[publish_dir].exists /\ ~mk_ok
       THEN [fs |-> dirs, log |-> saved \o made.log, result |-> "OSError"]
       ELSE [fs |-> [dirs EXCEPT ![publish_dir] = loop.dir],
             log |-> saved \o made.log \o loop.log
                     \o (IF loop.raised = None THEN << <<"base_publish">> >> ELSE <<>>),
             result |-> IF loop.raised = None THEN "returned" ELSE loop.raised]

\* publish(settings, item), l.244-361
PublishOutcome(props, path, dirs, mk_ok, has_id) ==
    LET saved == << <<"save_session", path, MayaFileType(path)>> >>
        publish_path == props["path"]
        publish_dir == Dirname(publish_path)
        made == MakeDirs(dirs[publish_dir], mk_ok)
        loop == ShaderLoop(publish_dir, made.dir, props["shader_iter"], 1, has_id)
    IN [fs |-> [dirs EXCEPT ![publish_dir] = loop.dir],
        log |-> saved \o made.log \o loop.log
                \o (IF loop.raised = None THEN << <<"base_publish">> >> ELSE <<>>),
        result |-> IF loop.raised = None THEN "returned" ELSE loop.raised]

Publish ==
    /\ phase = "validated"
    /\ \E mk_ok \in BOOLEAN, has_id \in [1..Len(properties["shader_iter"]) -> BOOLEAN] :
        \E out \in {PublishOutcome(properties, session, fs, mk_ok, has_id)} :
           /\ fs' = out.fs
           /\ log' = out.log
           /\ publish_result' = out.result
           /\ phase' = IF out.result = "returned" THEN "published" ELSE "publish_raised"
    /\ pre' = Snapshot
    /\ UNCHANGED <<properties, parent_properties, context_change_allowed,
                   templates, session, accept_result, validate_result, rounds>>

\* finalize(settings, item), l.375: the base class does everything
Finalize ==
    /\ phase = "published"
    /\ phase' = "finalized"
    /\ log' = << <<"base_finalize">> >>
    /\ pre' = Snapshot
    /\ UNCHANGED <<properties, parent_properties, context_change_allowed,
                   templates, session, fs, accept_result, validate_result,
                   publish_result, rounds>>

\* the collector hands a new item to the plugin: the next publish session of
\* the same scene and configuration
Collect ==
    /\ phase \in {"finalized", "publish_raised"}
    /\ rounds < MaxRounds
    /\ rounds' = rounds + 1
    /\ properties' \in {EmptyBag} \cup {[shader_iter |-> s] : s \in ShaderSeqs}
    /\ context_change_allowed' = TRUE
    /\ phase' = "collected"
    /\ accept_result' = EmptyBag
    /\ validate_result' = "none"
    /\ publish_result' = "none"
    /\ log' = <<>>
    /\ pre' = [context_change_allowed |-> TRUE, properties |-> EmptyBag,
               session |-> session,
               dirs |-> {dir \in PublishDirs : fs[dir].exists}]
    /\ UNCHANGED <<parent_properties, templates, session, fs>>

Init ==
    /\ properties \in {EmptyBag} \cup {[shader_iter |-> s] : s \in ShaderSeqs}
    /\ parent_properties \in {EmptyBag} \cup {[work_template |-> w] : w \in WorkTemplates}
    /\ context_change_allowed = TRUE
    /\ templates \in {EmptyBag} \cup {[maya_asset_shader |-> t] : t \in PublishTemplates}
    /\ session \in {Unsaved} \cup SavedPaths
    /\ fs \in [PublishDirs -> InitDirs]
    /\ phase = "collected"
    /\ accept_result = EmptyBag
    /\ validate_result = "none"
    /\ publish_result = "none"
    /\ log = <<>>
    /\ pre = Snapshot
    /\ rounds = 0

Next ==
    \/ Accept
    \/ Validate
    \/ SaveScene
    \/ Publish
    \/ Finalize
    \/ Collect

Spec == Init /\ [][Next]_vars

\* =================================================================== claims
Range(seq) == {seq[i] : i \in 1..Len(seq)}

\* the positions of the log holding a call of the given kind
Events(op) == {i \in 1..Len(log) : log[i][1] = op}

\* the entries of a listing whose name contains file_name
Matching(d, file_name) == {f \in d.files : Contains(f, file_name)}

\* the entry of a non-empty set of names that sorts last
LastOf(S) == CHOOSE f \in S : \A g \in S \ {f} : StrLess(g, f)

\* NNN of the `.vNNN.` components the pattern finds in one name
VersionsIn(f) == Range(FindAll(f))

\* f is <name>.v<three digits>, the name publish gives an export of name
IsExportOf(f, name) ==
    /\ Len(f) = Len(name) + 5
    /\ SubSeq(f, 1, Len(name)) = name
    /\ f[Len(name) + 1] = "."
    /\ f[Len(name) + 2] = "v"
    /\ \A j \in (Len(name) + 3)..(Len(name) + 5) : IsDigit(f[j])

ExportVersion(f, name) ==
    100 * DigitVal(f[Len(name) + 3]) + 10 * DigitVal(f[Len(name) + 4])
        + DigitVal(f[Len(name) + 5])

\* ----------------------------------------------------------------------- C1
\* C1: accept returns accepted=true exactly when the item carries a shader
\* iterator with at least one node and the parent's work template is present
\* and the publish template maya_asset_shader resolves; otherwise accepted is
\* false.  Whenever accepted is true, checked is true as well.
C1_AcceptedExactlyWhen ==
    phase \in {"accepted", "rejected"} =>
        LET ok == /\ HasKey(properties, "shader_iter")
                  /\ Len(properties["shader_iter"]) >= 1
                  /\ HasKey(parent_properties, "work_template")
                  /\ HasKey(templates, "maya_asset_shader")
        IN /\ accept_result["accepted"] = ok
           /\ accept_result["accepted"] =>
                (HasKey(accept_result, "checked") /\ accept_result["checked"])

C1_Witness ==
    /\ phase = "accepted"
    /\ accept_result["accepted"]
    /\ accept_result["checked"]
    /\ HasKey(parent_properties, "work_template")
    /\ HasKey(templates, "maya_asset_shader")

\* ----------------------------------------------------------------------- C2
\* C2: for every call of accept that returns accepted=false, whatever the
\* reason, the item's context_change_allowed flag is left as it was before
\* the call.
C2_RejectLeavesContextFlag ==
    phase = "rejected" => context_change_allowed = pre.context_change_allowed

\* ----------------------------------------------------------------------- C3
\* C3: validate, with a shader iterator that is non-empty after its refresh,
\* raises when the session has never been saved and when the publish
\* template reports missing keys for the work fields; in both error outcomes
\* path, publish_path and publish_version are left unchanged and the base
\* class validator is not invoked.
C3_ValidateRaises ==
    (phase \in {"validated", "invalid", "validate_raised"}
        /\ Len(properties["shader_iter"]) > 0) =>
        LET unsaved == pre.session = Unsaved
            missing == /\ ~unsaved
                       /\ MissingKeys(properties["publish_template"],
                                      GetFields(parent_properties["work_template"],
                                                pre.session)) # {}
        IN /\ (unsaved \/ missing) => validate_result = "raised"
           /\ validate_result = "raised" =>
                /\ Restrict(properties, PathKeys) = pre.properties
                /\ Events("base_validate") = {}
                /\ Events("set") = {}

C3_Witness ==
    /\ phase = "validate_raised"
    /\ validate_result = "raised"
    /\ Len(properties["shader_iter"]) > 0
    /\ pre.session # Unsaved
    /\ MissingKeys(properties["publish_template"],
                   GetFields(parent_properties["work_template"], pre.session)) # {}

\* ----------------------------------------------------------------------- C4
\* C4: when validate raises no error and the refreshed iterator is non-empty,
\* then before it delegates to the base validator it has written path and
\* publish_path to the same value, the publish template applied to the
\* fields the work template extracted from the session path; it has written
\* publish_version if and only if those fields hold a version (with that
\* value); and it returns exactly the base validator's result.
C4_ValidateWritesThenDelegates ==
    (phase \in {"validated", "invalid"} /\ Len(properties["shader_iter"]) > 0) =>
        LET fields == GetFields(parent_properties["work_template"], pre.session)
            expected == ApplyFields(properties["publish_template"], fields)
            base == Events("base_validate")
        IN /\ HasKey(properties, "path") /\ properties["path"] = expected
           /\ HasKey(properties, "publish_path")
           /\ properties["publish_path"] = expected
           /\ (\E i \in Events("set") : log[i][2] = "publish_version")
                <=> ("version" \in DOMAIN fields)
           /\ "version" \in DOMAIN fields =>
                properties["publish_version"] = fields["version"]
           /\ base = {Len(log)}
           /\ \A i \in Events("set") : i < Len(log)
           /\ \E i \in Events("set") : log[i][2] = "path"
           /\ \E i \in Events("set") : log[i][2] = "publish_path"
           /\ validate_result = (IF log[Len(log)][2] THEN "True" ELSE "False")

C4_Witness ==
    /\ phase = "validated"
    /\ validate_result = "True"
    /\ Len(properties["shader_iter"]) > 0
    /\ HasKey(properties, "path")
    /\ ~HasKey(properties, "publish_version")

\* ----------------------------------------------------------------------- C5
\* C5: where the publish directory holds only files named
\* <shading-engine-name>.v<3-digit-version>, every export of a name gets a
\* version number greater than every version already exported under that
\* name in that directory.
C5_VersionsStrictlyIncrease ==
    \A i \in Events("export") :
        LET name == log[i][2]
            d == log[i - 1][3]
            version_number == log[i - 1][4].value
        IN (\A f \in d.files : \E n \in ShaderNames : IsExportOf(f, n)) =>
            \A f \in d.files :
                IsExportOf(f, name) => version_number > ExportVersion(f, name)

\* ----------------------------------------------------------------------- C6
\* C6: _get_next_shader_version_number returns 1, and does not fail, whenever
\* no existing file matches: the directory is empty or holds no entry whose
\* name contains file_name, or entries contain file_name but none carries a
\* .vNNN. version component.
C6_DefaultsToOne ==
    \A i \in Events("next_version") :
        LET name == log[i][2]
            d == log[i][3]
            r == log[i][4]
        IN (d.exists /\ \A f \in Matching(d, name) : VersionsIn(f) = {}) =>
            (r.status = "ok" /\ r.value = 1)

\* ----------------------------------------------------------------------- C7
\* C7: with at least one versioned file containing the shader's node name,
\* the next version is 1 + the highest NNN among ALL files of the directory
\* whose name contains the node name.
C7_MaxOverAllFiles ==
    \A i \in Events("next_version") :
        LET name == log[i][2]
            d == log[i][3]
            r == log[i][4]
        IN (d.exists /\ \E f \in Matching(d, name) : VersionsIn(f) # {}) =>
            /\ r.status = "ok"
            /\ r.value = 1 + SetMax(UNION {VersionsIn(f) : f \in Matching(d, name)})

\* ----------------------------------------------------------------------- C8
\* C8 as stated: when the publish directory does not exist and creating it
\* fails, the failure is logged and not raised, and publish goes on to the
\* shader loop and attempts the export of the shaders; when the directory
\* exists, no creation is attempted.
C8_ExportAttemptedAfterFailedMakeDirs ==
    phase \in {"published", "publish_raised"} =>
        /\ Dirname(properties["path"]) \in pre.dirs => Events("makedirs") = {}
        /\ (\E i \in Events("makedirs") : ~log[i][2]) =>
            /\ \E i \in Events("error") : i = 3
            /\ Events("next_version") # {}
            /\ Events("export") # {}

\* C8 as amended: when the publish directory does not exist and creating it
\* fails, the failure is logged and not raised, and publish goes on to the
\* shader loop, where the version scan of the first shader lists the absent
\* directory and raises before any export is attempted; when the directory
\* exists, no creation is attempted.
C8_ScanRaisesAfterFailedMakeDirs ==
    phase \in {"published", "publish_raised"} =>
        /\ Dirname(properties["path"]) \in pre.dirs => Events("makedirs") = {}
        /\ (\E i \in Events("makedirs") : ~log[i][2]) =>
            /\ \E i \in Events("error") : i = 3
            /\ Events("next_version") = {4}
            /\ log[4][2] = properties["shader_iter"][1]
            /\ log[4][4].status = "OSError"
            /\ publish_result = "OSError"
            /\ Events("export") = {}
            /\ Len(log) = 4

C8_Witness ==
    /\ phase = "publish_raised"
    /\ Dirname(properties["path"]) \notin pre.dirs
    /\ \E i \in Events("makedirs") : ~log[i][2]
    /\ Events("next_version") # {}

\* ----------------------------------------------------------------------- C9
\* C9: a publish call on shaders s1..sn, with the scene saved and the
\* publish directory creatable, re-saves the session first; then for each
\* shader, in iteration order and exactly once, exports it to its versioned
\* path, registers that path with that version and the shading-engine name,
\* loads the node entity and creates or updates it; and invokes the base
\* class publish only after the last shader.
C9_PublishSequence ==
    (phase \in {"published", "publish_raised"}
        /\ ~(\E i \in Events("makedirs") : ~log[i][2])) =>
        LET shaders == properties["shader_iter"]
            n == Len(shaders)
            k == 1 + Cardinality(Events("makedirs"))
        IN /\ Len(log) = k + 5 * n + 1
           /\ log[1][1] = "save_session"
           /\ \A j \in 1..n :
                LET b == k + 5 * (j - 1)
                IN /\ log[b + 1][1] = "next_version"
                   /\ log[b + 1][2] = shaders[j]
                   /\ log[b + 2][1] = "export"
                   /\ log[b + 2][2] = shaders[j]
                   /\ log[b + 3][1] = "register_publish"
                   /\ log[b + 3][2] = shaders[j]
                   /\ log[b + 3][3] = log[b + 2][3]
                   /\ log[b + 3][4] = log[b + 1][4].value
                   /\ log[b + 4][1] = "load"
                   /\ log[b + 4][2] = shaders[j]
                   /\ log[b + 5][1] \in {"create", "update"}
                   /\ log[b + 5][2] = shaders[j]
           /\ log[Len(log)][1] = "base_publish"

\* ---------------------------------------------------------------------- C10
\* C10: _get_next_shader_version_number looks at one file name only: of the
\* entries whose name contains file_name, sorted, it scans the last for
\* .vNNN. groups and returns the largest NNN + 1; entries that sort earlier
\* never change the result, even with a higher version, and an entry of a
\* different shader whose name contains file_name can decide the result.
C10_OnlyLastEntryDecides ==
    \A i \in Events("next_version") :
        LET name == log[i][2]
            d == log[i][3]
            r == log[i][4]
        IN (d.exists /\ Matching(d, name) # {}) =>
            LET last == LastOf(Matching(d, name))
            IN /\ r.status = "ok"
               /\ r.value = 1 + SetMax(VersionsIn(last) \cup {0})
               /\ \A T \in SUBSET (d.files \ {last}) :
                    GetNextShaderVersionNumber(
                        [exists |-> TRUE, files |-> T \cup {last}], name) = r

C10_Witness ==
    \E i \in Events("next_version") :
        LET name == log[i][2]
            d == log[i][3]
            r == log[i][4]
        IN /\ d.exists
           /\ Matching(d, name) # {}
           /\ r.status = "ok"
           /\ \E f \in Matching(d, name) :
                /\ StrLess(f, LastOf(Matching(d, name)))
                /\ VersionsIn(f) # {}
                /\ SetMax(VersionsIn(f)) >= r.value
           /\ \E n \in ShaderNames \ {name} :
                Contains(LastOf(Matching(d, name)), n)
====
